---- MODULE Spec2Model ----
(***************************************************************************)
(* Model of slang/util/Hash.h: the wyhash-derived mixer (mum, mix, r8, r4, *)
(* r3, hash over bytes, hash over a 64-bit integer), the per-type hash     *)
(* dispatch and the Boost-style hash_combine with its tuple, pair and      *)
(* vector folds.                                                           *)
(*                                                                         *)
(* A uint64_t is modelled as the sequence of its 8 bytes, least            *)
(* significant byte first (the layout std::memcpy gives on the             *)
(* little-endian hosts the code targets), because the model checker's      *)
(* integers are narrower than 64 bits.  A __uint128_t is the sequence of   *)
(* its 16 bytes.  All arithmetic is carried out bytewise and is exact.     *)
(***************************************************************************)
EXTENDS Integers, Sequences, FiniteSets

(***************************************************************************)
(* Machine words                                                           *)
(***************************************************************************)

\* bytes in a uint64_t / size_t
WordBytes == 8

\* bytes in a __uint128_t
WideBytes == 16

NibXorRow(x) == [y \in 0..15 |->
    (IF (x % 2) # (y % 2) THEN 1 ELSE 0)
  + (IF ((x \div 2) % 2) # ((y \div 2) % 2) THEN 2 ELSE 0)
  + (IF ((x \div 4) % 2) # ((y \div 4) % 2) THEN 4 ELSE 0)
  + (IF (x \div 8) # (y \div 8) THEN 8 ELSE 0)]

NibOrRow(x) == [y \in 0..15 |->
    (IF (x % 2) + (y % 2) > 0 THEN 1 ELSE 0)
  + (IF ((x \div 2) % 2) + ((y \div 2) % 2) > 0 THEN 2 ELSE 0)
  + (IF ((x \div 4) % 2) + ((y \div 4) % 2) > 0 THEN 4 ELSE 0)
  + (IF (x \div 8) + (y \div 8) > 0 THEN 8 ELSE 0)]

NibXor == [x \in 0..15 |-> NibXorRow(x)]

NibOr == [x \in 0..15 |-> NibOrRow(x)]

\* operator ^ on one byte
ByteXor(x, y) == 16 * NibXor[x \div 16][y \div 16] + NibXor[x % 16][y % 16]

\* operator | on one byte
ByteOr(x, y) == 16 * NibOr[x \div 16][y \div 16] + NibOr[x % 16][y % 16]

RECURSIVE Pow2(_)
Pow2(n) == IF n = 0 THEN 1 ELSE 2 * Pow2(n - 1)

\* the 8 bytes of f, least significant first, as a tuple
Word8(f) == <<f[1], f[2], f[3], f[4], f[5], f[6], f[7], f[8]>>

\* the word whose bytes are written most significant first, as in a hex literal
BE(bs) == Word8([k \in 1..WordBytes |-> bs[WordBytes + 1 - k]])

\* a small non-negative integer (below 2^31) converted to uint64_t
ToWord(n) == Word8([k \in 1..WordBytes |->
    IF k <= 4 THEN (n \div Pow2(8 * (k - 1))) % 256 ELSE 0])

Zero64 == ToWord(0)

\* byte k of w, zero outside the word
ByteOf(w, k) == IF k >= 1 /\ k <= Len(w) THEN w[k] ELSE 0

\* uint64_t a ^ b
Xor(a, b) == Word8([k \in 1..WordBytes |-> ByteXor(a[k], b[k])])

\* uint64_t a | b
Or(a, b) == Word8([k \in 1..WordBytes |-> ByteOr(a[k], b[k])])

\* uint64_t a << n, 0 <= n < 64
Shl(a, n) == Word8([k \in 1..WordBytes |->
    ( ByteOf(a, k - (n \div 8)) * Pow2(n % 8)
    + ByteOf(a, k - (n \div 8) - 1) \div Pow2(8 - (n % 8)) ) % 256])

\* uint64_t a >> n, 0 <= n < 64
Shr(a, n) == Word8([k \in 1..WordBytes |->
    ( ByteOf(a, k + (n \div 8)) \div Pow2(n % 8)
    + ByteOf(a, k + (n \div 8) + 1) * Pow2(8 - (n % 8)) ) % 256])

\* bytes k..8 of a + b, given the carry into byte k
RECURSIVE AddFrom(_, _, _, _)
AddFrom(a, b, k, carry) ==
  IF k > WordBytes THEN <<>>
  ELSE <<(a[k] + b[k] + carry) % 256>>
       \o AddFrom(a, b, k + 1, (a[k] + b[k] + carry) \div 256)

\* uint64_t a + b, wrapping modulo 2^64
Add(a, b) == AddFrom(a, b, 1, 0)

\* a < b on uint64_t
RECURSIVE LtFrom(_, _, _)
LtFrom(a, b, k) ==
  IF k = 0 THEN FALSE
  ELSE IF a[k] # b[k] THEN a[k] < b[k]
  ELSE LtFrom(a, b, k - 1)

Lt(a, b) == LtFrom(a, b, WordBytes)

\* static_cast<uint64_t>(bool)
BoolWord(c) == IF c THEN ToWord(1) ELSE Zero64

\* the sum of a[j] * b[k + 1 - j] over j in 1..i
RECURSIVE ColumnSum(_, _, _, _)
ColumnSum(a, b, k, i) ==
  IF i = 0 THEN 0
  ELSE ByteOf(a, i) * ByteOf(b, k + 1 - i) + ColumnSum(a, b, k, i - 1)

\* bytes k..n of the exact product a * b, given the carry into byte k
RECURSIVE MulFrom(_, _, _, _, _)
MulFrom(a, b, k, carry, n) ==
  IF k > n THEN <<>>
  ELSE <<(ColumnSum(a, b, k, k) + carry) % 256>>
       \o MulFrom(a, b, k + 1, (ColumnSum(a, b, k, k) + carry) \div 256, n)

\* the low n bytes of the exact product a * b (operator * in an n-byte type)
MulN(a, b, n) == MulFrom(a, b, 1, 0, n)

\* uint64_t a * b, wrapping modulo 2^64
Mul(a, b) == MulN(a, b, WordBytes)

\* static_cast<uint32_t>(a) widened back to uint64_t
Lo32(a) == Word8([k \in 1..WordBytes |-> IF k <= 4 THEN a[k] ELSE 0])

\* static_cast<uint64_t>(r) of a __uint128_t
Low64(r) == Word8([k \in 1..WordBytes |-> r[k]])

\* static_cast<uint64_t>(r >> 64U) of a __uint128_t
High64(r) == Word8([k \in 1..WordBytes |-> r[k + WordBytes]])

(***************************************************************************)
(* Mixer: mum and mix                                                      *)
(***************************************************************************)

\* mum where __SIZEOF_INT128__ is defined: <<*a, *b>> after the call
mum_int128(a, b) ==
  LET r == MulN(a, b, WideBytes)
  IN  <<Low64(r), High64(r)>>

\* faulty variant: the carry out of t + (rm1 << 32) is dropped
mum_fallback_one_carry(a, b) ==
  LET ha  == Shr(a, 32)
      hb  == Shr(b, 32)
      la  == Lo32(a)
      lb  == Lo32(b)
      rh  == Mul(ha, hb)
      rm0 == Mul(ha, lb)
      rm1 == Mul(hb, la)
      rl  == Mul(la, lb)
      t   == Add(rl, Shl(rm0, 32))
      c   == BoolWord(Lt(t, rl))
      lo  == Add(t, Shl(rm1, 32))
      hi  == Add(Add(Add(rh, Shr(rm0, 32)), Shr(rm1, 32)), c)
  IN  <<lo, hi>>

\* mum in the portable #else branch: <<*a, *b>> after the call
mum_fallback(a, b) ==
  LET ha  == Shr(a, 32)
      hb  == Shr(b, 32)
      la  == Lo32(a)
      lb  == Lo32(b)
      rh  == Mul(ha, hb)
      rm0 == Mul(ha, lb)
      rm1 == Mul(hb, la)
      rl  == Mul(la, lb)
      t   == Add(rl, Shl(rm0, 32))
      c0  == BoolWord(Lt(t, rl))
      lo  == Add(t, Shl(rm1, 32))
      c   == Add(c0, BoolWord(Lt(lo, t)))
      hi  == Add(Add(Add(rh, Shr(rm0, 32)), Shr(rm1, 32)), c)
  IN  <<lo, hi>>

\* mum as built on the hosts with a 128-bit integer type
mum(a, b) == mum_int128(a, b)

\* mix: multiply and xor
mix(a, b) ==
  LET r == mum(a, b)
  IN  Xor(r[1], r[2])

\* mix as built from the portable branch of mum
mix_fallback(a, b) ==
  LET r == mum_fallback(a, b)
  IN  Xor(r[1], r[2])

(***************************************************************************)
(* Mixer: reads.  key is the caller's memory starting at the pointer, a    *)
(* sequence of bytes; p is a byte offset from the pointer.                 *)
(***************************************************************************)

\* r8(key + p)
r8(key, p) == Word8([k \in 1..WordBytes |-> key[p + k]])

\* r4(key + p), widened to uint64_t
r4(key, p) == Word8([k \in 1..WordBytes |-> IF k <= 4 THEN key[p + k] ELSE 0])

\* the three indices r3 reads: p[0], p[k >> 1], p[k - 1]
r3_index(k) == <<0, k \div 2, k - 1>>

\* r3(key + p, k)
r3(key, p, k) ==
  LET x == r3_index(k)
  IN  Or(Or(Shl(ToWord(key[p + x[1] + 1]), 16),
            Shl(ToWord(key[p + x[2] + 1]), 8)),
         ToWord(key[p + x[3] + 1]))

secret0 == BE(<<160, 118, 29, 100, 120, 189, 100, 47>>)   \* 0xa0761d6478bd642f

secret1 == BE(<<231, 3, 126, 209, 160, 180, 40, 219>>)    \* 0xe7037ed1a0b428db

secret2 == BE(<<142, 188, 106, 240, 156, 136, 198, 227>>) \* 0x8ebc6af09c88c6e3

secret3 == BE(<<88, 153, 101, 204, 117, 55, 76, 195>>)    \* 0x589965cc75374cc3

\* the secret array, indexed from 0 as in the code
secret(n) ==
  CASE n = 0 -> secret0
    [] n = 1 -> secret1
    [] n = 2 -> secret2
    [] n = 3 -> secret3

\* 0x9E3779B97F4A7C15
golden == BE(<<158, 55, 121, 185, 127, 74, 124, 21>>)

\* hash(uint64_t x)
hashU64(x) == mix(x, golden)

(***************************************************************************)
(* Mixer: hash(void const* key, size_t len)                                *)
(***************************************************************************)

\* faulty variant: the stride (len >> 3) << 2 is left out of both inner loads
short_offsets_no_stride(len) == <<0, 0, len - 4, len - 4>>

\* offsets of the four r4 loads of the branch 4 <= len <= 16
short_offsets(len) ==
  <<0, (len \div 8) * 4, len - 4, len - 4 - ((len \div 8) * 4)>>

\* a and b of the branch 4 <= len <= 16
short_words(key, len) ==
  LET o == short_offsets(len)
  IN  << Or(Shl(r4(key, o[1]), 32), r4(key, o[2])),
         Or(Shl(r4(key, o[3]), 32), r4(key, o[4])) >>

\* offsets of the six r8 loads of one pass of the do-while loop
stride48_offsets(p) == <<p, p + 8, p + 16, p + 24, p + 32, p + 40>>

\* seed, see1, see2 after one pass of the do-while loop
round48(key, p, sd, s1, s2) ==
  LET o == stride48_offsets(p)
  IN  << mix(Xor(r8(key, o[1]), secret(1)), Xor(r8(key, o[2]), sd)),
         mix(Xor(r8(key, o[3]), secret(2)), Xor(r8(key, o[4]), s1)),
         mix(Xor(r8(key, o[5]), secret(3)), Xor(r8(key, o[6]), s2)) >>

\* offsets of the two r8 loads of one pass of the while (i > 16) loop
stride16_offsets(p) == <<p, p + 8>>

\* seed after one pass of the while (i > 16) loop
round16(key, p, sd) ==
  LET o == stride16_offsets(p)
  IN  mix(Xor(r8(key, o[1]), secret(1)), Xor(r8(key, o[2]), sd))

\* faulty variant: the next unconsumed bytes are read instead of the tail
tail_offsets_unconsumed(p, i) == <<p, p + 8>>

\* offsets of the two r8 loads after the loops: p + i - 16 and p + i - 8
tail_offsets(p, i) == <<p + i - 16, p + i - 8>>

\* a and b after the loops
tail_words(key, p, i) ==
  LET o == tail_offsets(p, i)
  IN  <<r8(key, o[1]), r8(key, o[2])>>

\* faulty variant: the length is left out of the final mix
finish_without_len(len, a, b, sd) ==
  mix(secret(1), mix(Xor(a, secret(1)), Xor(b, sd)))

\* the return expression
finish(len, a, b, sd) ==
  mix(Xor(secret(1), ToWord(len)), mix(Xor(a, secret(1)), Xor(b, sd)))

\* the do-while loop: <<p, i, seed, see1, see2>> when it exits
RECURSIVE loop48(_, _, _, _, _, _)
loop48(key, p, i, sd, s1, s2) ==
  LET r == round48(key, p, sd, s1, s2)
  IN  IF i - 48 > 48
      THEN loop48(key, p + 48, i - 48, r[1], r[2], r[3])
      ELSE <<p + 48, i - 48, r[1], r[2], r[3]>>

\* the while (i > 16) loop: <<p, i, seed>> when it exits
RECURSIVE loop16(_, _, _, _)
loop16(key, p, i, sd) ==
  IF i > 16
  THEN loop16(key, p + 16, i - 16, round16(key, p, sd))
  ELSE <<p, i, sd>>

\* hash(key, len) as a function of its arguments
hashBytes(key, len) ==
  IF len <= 16
  THEN IF len >= 4
       THEN LET w == short_words(key, len)
            IN  finish(len, w[1], w[2], secret(0))
       ELSE IF len > 0
            THEN finish(len, r3(key, 0, len), Zero64, secret(0))
            ELSE finish(len, Zero64, Zero64, secret(0))
  ELSE LET big == IF len > 48
                  THEN LET l == loop48(key, 0, len, secret(0), secret(0), secret(0))
                       IN  <<l[1], l[2], Xor(l[3], Xor(l[4], l[5]))>>
                  ELSE <<0, len, secret(0)>>
           s == loop16(key, big[1], big[2], big[3])
           w == tail_words(key, s[1], s[2])
       IN  finish(len, w[1], w[2], s[3])

(***************************************************************************)
(* The same function, one step at a time.  pc is the position in the body  *)
(* of hash(key, len); loads collects every load as <<offset, size>>;       *)
(* rounds counts the passes of the do-while loop.                          *)
(***************************************************************************)

\* longest buffer hashed
MaxLen == 100

\* bytes of the caller's memory that follow the longest buffer
Slack == 16

MemLen == MaxLen + Slack

\* eight bytes that spell secret[1] the way the branch 8 <= len <= 16 builds a
CraftedPrefix == <<209, 126, 3, 231, 219, 40, 180, 160, 219, 40, 180, 160>>

RampByte(k) == (37 * k + 11) % 256

Ramp == [k \in 1..MemLen |-> RampByte(k)]

Ones == [k \in 1..MemLen |-> 255]

Crafted == [k \in 1..MemLen |->
    IF k <= Len(CraftedPrefix) THEN CraftedPrefix[k] ELSE RampByte(k)]

Buffers == {Ramp, Ones, Crafted}

VARIABLES
  pc,      \* position in the operation being run
  key,     \* hash: the caller's memory from the pointer on
  len,     \* hash: the length argument
  p,       \* hash: the cursor, as an offset from key
  i,       \* hash: the remaining count of the long branch
  seed,    \* hash: seed
  see1,    \* hash: see1
  see2,    \* hash: see2
  a,       \* hash: a
  b,       \* hash: b
  loads,   \* hash: the loads made so far, each <<offset, size>>
  rounds,  \* hash: passes of the do-while loop made so far
  result,  \* hash: the value returned
  ma,      \* mum: *a on entry
  mb,      \* mum: *b on entry
  wide,    \* mum: <<*a, *b>> on return, 128-bit branch
  manual,  \* mum: <<*a, *b>> on return, portable branch
  op,      \* combiner: which operation was called
  seed0,   \* combiner: the caller's seed on entry
  vals,    \* combiner: the values, or the aggregate's elements, in order
  out,     \* combiner: the seed on return, or the aggregate's hash
  rep,     \* dispatch: the object representation of an integer
  hs,      \* dispatch: hash<T> of rep read as the signed type
  hu       \* dispatch: hash<T> of rep read as the unsigned type

hashVars == <<key, len, p, i, seed, see1, see2, a, b, loads, rounds, result>>

mumVars == <<ma, mb, wide, manual>>

combineVars == <<op, seed0, vals, out>>

dispatchVars == <<rep, hs, hu>>

notHashVars == <<mumVars, combineVars, dispatchVars>>

vars == <<pc, hashVars, mumVars, combineVars, dispatchVars>>

\* the value of a variable that the running operation does not have
None == <<>>

NoHash ==
  /\ key = None /\ len = 0 /\ p = 0 /\ i = 0
  /\ seed = None /\ see1 = None /\ see2 = None /\ a = None /\ b = None
  /\ loads = {} /\ rounds = 0 /\ result = None

NoMum == ma = None /\ mb = None /\ wide = None /\ manual = None

NoCombine == op = "none" /\ seed0 = None /\ vals = None /\ out = None

NoDispatch == rep = None /\ hs = None /\ hu = None

(***************************************************************************)
(* hash(key, len), step by step                                            *)
(***************************************************************************)

\* the loads of sz bytes at the offsets in the tuple os
LoadsAt(os, sz) == {<<os[k], sz>> : k \in DOMAIN os}

\* a call hash(key, len): lines 93-96
InitHash ==
  /\ pc = "entry"
  /\ key \in Buffers
  /\ len \in 0..MaxLen
  /\ p = 0
  /\ i = 0
  /\ seed = secret(0)
  /\ see1 = None
  /\ see2 = None
  /\ a = Zero64
  /\ b = Zero64
  /\ loads = {}
  /\ rounds = 0
  /\ result = None
  /\ NoMum /\ NoCombine /\ NoDispatch

\* len <= 16 and len >= 4
Short4 ==
  /\ pc = "entry"
  /\ len <= 16
  /\ len >= 4
  /\ a' = short_words(key, len)[1]
  /\ b' = short_words(key, len)[2]
  /\ loads' = loads \cup LoadsAt(short_offsets(len), 4)
  /\ pc' = "return"
  /\ UNCHANGED <<key, len, p, i, seed, see1, see2, rounds, result>>
  /\ UNCHANGED notHashVars

\* len < 4 and len > 0
Short3 ==
  /\ pc = "entry"
  /\ len <= 16
  /\ ~(len >= 4)
  /\ len > 0
  /\ a' = r3(key, p, len)
  /\ b' = Zero64
  /\ loads' = loads \cup LoadsAt(r3_index(len), 1)
  /\ pc' = "return"
  /\ UNCHANGED <<key, len, p, i, seed, see1, see2, rounds, result>>
  /\ UNCHANGED notHashVars

\* len == 0
Short0 ==
  /\ pc = "entry"
  /\ len <= 16
  /\ ~(len >= 4)
  /\ ~(len > 0)
  /\ a' = Zero64
  /\ b' = Zero64
  /\ pc' = "return"
  /\ UNCHANGED <<key, len, p, i, seed, see1, see2, loads, rounds, result>>
  /\ UNCHANGED notHashVars

\* len > 16: i = len, and see1 = see2 = seed when i > 48
Long ==
  /\ pc = "entry"
  /\ ~(len <= 16)
  /\ i' = len
  /\ IF len > 48
     THEN see1' = seed /\ see2' = seed /\ pc' = "do48"
     ELSE UNCHANGED <<see1, see2>> /\ pc' = "while16"
  /\ UNCHANGED <<key, len, p, seed, a, b, loads, rounds, result>>
  /\ UNCHANGED notHashVars

\* faulty variant: the loop goes on while (i >= 48)
Stride48_while_ge ==
  /\ pc = "do48"
  /\ seed' = round48(key, p, seed, see1, see2)[1]
  /\ see1' = round48(key, p, seed, see1, see2)[2]
  /\ see2' = round48(key, p, seed, see1, see2)[3]
  /\ loads' = loads \cup LoadsAt(stride48_offsets(p), 8)
  /\ p' = p + 48
  /\ i' = i - 48
  /\ rounds' = rounds + 1
  /\ pc' = IF i' >= 48 THEN "do48" ELSE "fold"
  /\ UNCHANGED <<key, len, a, b, result>>
  /\ UNCHANGED notHashVars

\* one pass of do { ... } while (i > 48)
Stride48 ==
  /\ pc = "do48"
  /\ seed' = round48(key, p, seed, see1, see2)[1]
  /\ see1' = round48(key, p, seed, see1, see2)[2]
  /\ see2' = round48(key, p, seed, see1, see2)[3]
  /\ loads' = loads \cup LoadsAt(stride48_offsets(p), 8)
  /\ p' = p + 48
  /\ i' = i - 48
  /\ rounds' = rounds + 1
  /\ pc' = IF i' > 48 THEN "do48" ELSE "fold"
  /\ UNCHANGED <<key, len, a, b, result>>
  /\ UNCHANGED notHashVars

\* seed ^= see1 ^ see2
Fold ==
  /\ pc = "fold"
  /\ seed' = Xor(seed, Xor(see1, see2))
  /\ pc' = "while16"
  /\ UNCHANGED <<key, len, p, i, see1, see2, a, b, loads, rounds, result>>
  /\ UNCHANGED notHashVars

\* faulty variant: the cursor is not advanced
Stride16_cursor_kept ==
  /\ pc = "while16"
  /\ i > 16
  /\ seed' = round16(key, p, seed)
  /\ loads' = loads \cup LoadsAt(stride16_offsets(p), 8)
  /\ i' = i - 16
  /\ UNCHANGED <<pc, p, key, len, see1, see2, a, b, rounds, result>>
  /\ UNCHANGED notHashVars

\* one pass of while (i > 16)
Stride16 ==
  /\ pc = "while16"
  /\ i > 16
  /\ seed' = round16(key, p, seed)
  /\ loads' = loads \cup LoadsAt(stride16_offsets(p), 8)
  /\ i' = i - 16
  /\ p' = p + 16
  /\ UNCHANGED <<pc, key, len, see1, see2, a, b, rounds, result>>
  /\ UNCHANGED notHashVars

\* the loop is left: a = r8(p + i - 16), b = r8(p + i - 8)
TailRead ==
  /\ pc = "while16"
  /\ ~(i > 16)
  /\ a' = tail_words(key, p, i)[1]
  /\ b' = tail_words(key, p, i)[2]
  /\ loads' = loads \cup LoadsAt(tail_offsets(p, i), 8)
  /\ pc' = "return"
  /\ UNCHANGED <<key, len, p, i, seed, see1, see2, rounds, result>>
  /\ UNCHANGED notHashVars

\* return mix(secret[1] ^ len, mix(a ^ secret[1], b ^ seed))
Return ==
  /\ pc = "return"
  /\ result' = finish(len, a, b, seed)
  /\ pc' = "done"
  /\ UNCHANGED <<key, len, p, i, seed, see1, see2, a, b, loads, rounds>>
  /\ UNCHANGED notHashVars

NextHash ==
  \/ Short4
  \/ Short3
  \/ Short0
  \/ Long
  \/ Stride48
  \/ Fold
  \/ Stride16
  \/ TailRead
  \/ Return

SpecHash == InitHash /\ [][NextHash]_vars

\* the step-by-step run returns what the function returns
HashAgrees == pc = "done" => result = hashBytes(key, len)

(***************************************************************************)
(* mum: the 128-bit branch and the portable branch on the same operands    *)
(***************************************************************************)

\* 32-bit halves, least significant byte first
Halves == { <<0, 0, 0, 0>>, <<1, 0, 0, 0>>, <<255, 255, 255, 255>>,
            <<0, 0, 0, 128>>, <<239, 190, 173, 222>> }

\* the operands tried: every low half with every high half
MumInputs == {lo \o hi : lo \in Halves, hi \in Halves}

AllOnes == <<255, 255, 255, 255, 255, 255, 255, 255>>

\* a call mum(&a, &b)
InitMum ==
  /\ pc = "mum"
  /\ ma \in MumInputs
  /\ mb \in MumInputs
  /\ wide = None
  /\ manual = None
  /\ NoHash /\ NoCombine /\ NoDispatch

\* the body of mum, in each of the two builds
MumCall ==
  /\ pc = "mum"
  /\ wide' = mum_int128(ma, mb)
  /\ manual' = mum_fallback(ma, mb)
  /\ pc' = "mum_done"
  /\ UNCHANGED <<ma, mb>>
  /\ UNCHANGED <<hashVars, combineVars, dispatchVars>>

NextMum ==
  \/ MumCall

SpecMum == InitMum /\ [][NextMum]_vars

(***************************************************************************)
(* Dispatch: hash<T> for the integral types and for the fallback           *)
(*                                                                         *)
(* An object is [strategy, rep, signed].  For an integral type rep is the  *)
(* object representation (1, 2, 4 or 8 bytes, least significant first) and *)
(* signed tells whether T is a signed type.  For a type without a          *)
(* specialization (strategy "fallback") rep is the 8-byte value that       *)
(* std::hash<T> returns for the object.                                    *)
(***************************************************************************)

IntObject(r, sg) == [strategy |-> "integral", rep |-> r, signed |-> sg]

FallbackObject(h) == [strategy |-> "fallback", rep |-> h, signed |-> FALSE]

\* the value of the object is negative
IsNegative(obj) == obj.signed /\ obj.rep[Len(obj.rep)] >= 128

\* faulty variant: the representation is reinterpreted, never sign-extended
static_cast_u64_bits(obj) ==
  Word8([k \in 1..WordBytes |-> IF k <= Len(obj.rep) THEN obj.rep[k] ELSE 0])

\* static_cast<uint64_t>(obj): the value modulo 2^64
static_cast_u64(obj) ==
  Word8([k \in 1..WordBytes |-> IF k <= Len(obj.rep) THEN obj.rep[k]
                  ELSE IF IsNegative(obj) THEN 255 ELSE 0])

\* std::hash<T>{}(obj) for a type the header does not specialize
std_hash(obj) == obj.rep

\* whether hash<T> declares is_avalanching
is_avalanching(obj) == obj.strategy # "fallback"

\* faulty variant: the fallback's value is passed through the mixer
hasher_remixing(obj) ==
  IF obj.strategy = "integral"
  THEN hashU64(static_cast_u64(obj))
  ELSE hashU64(std_hash(obj))

\* hash<T>{}(obj)
hasher(obj) ==
  IF obj.strategy = "integral"
  THEN hashU64(static_cast_u64(obj))
  ELSE std_hash(obj)

TopBytes == {0, 1, 127, 128, 129, 200, 254, 255}

LowBytes == {0, 1, 170, 255}

IntSizes == {1, 2, 4, 8}

\* the representations tried: a top byte over equal lower bytes
IntReps ==
  {[k \in 1..n |-> IF k = n THEN t ELSE f] :
     n \in IntSizes, t \in TopBytes, f \in LowBytes}

\* hash<signed T> and hash<unsigned T> are about to be applied to rep
InitDispatch ==
  /\ pc = "dispatch"
  /\ rep \in IntReps
  /\ hs = None
  /\ hu = None
  /\ NoHash /\ NoMum /\ NoCombine

\* hash<T>::operator() for the signed and for the unsigned type of that size
HashValue ==
  /\ pc = "dispatch"
  /\ hs' = hasher(IntObject(rep, TRUE))
  /\ hu' = hasher(IntObject(rep, FALSE))
  /\ pc' = "dispatch_done"
  /\ UNCHANGED rep
  /\ UNCHANGED <<hashVars, mumVars, combineVars>>

NextDispatch ==
  \/ HashValue

SpecDispatch == InitDispatch /\ [][NextDispatch]_vars

(***************************************************************************)
(* Combiner: hash_combine and the hashes of tuple, pair and vector         *)
(***************************************************************************)

\* 0x9e3779b9, an unsigned int converted to uint64_t
combine_constant == BE(<<0, 0, 0, 0, 158, 55, 121, 185>>)

\* faulty variant: the values after the first are folded before it
RECURSIVE hash_combine_rest_first(_, _)
hash_combine_rest_first(sd, vs) ==
  IF vs = <<>> THEN sd
  ELSE LET s1 == hash_combine_rest_first(sd, Tail(vs))
       IN  Xor(s1, Add(Add(Add(hasher(Head(vs)), combine_constant),
                           Shl(s1, 6)), Shr(s1, 2)))

\* hash_combine(seed, v, rest...): the seed when the call returns
RECURSIVE hash_combine(_, _)
hash_combine(sd, vs) ==
  IF vs = <<>> THEN sd
  ELSE hash_combine(
         Xor(sd, Add(Add(Add(hasher(Head(vs)), combine_constant),
                         Shl(sd, 6)), Shr(sd, 2))),
         Tail(vs))

\* faulty variant: the field at Index is folded before the lower fields
RECURSIVE HashValueImpl_high_first(_, _, _)
HashValueImpl_high_first(sd, tuple, Index) ==
  IF Index = 0
  THEN hash_combine(sd, <<tuple[1]>>)
  ELSE HashValueImpl_high_first(hash_combine(sd, <<tuple[Index + 1]>>),
                                tuple, Index - 1)

\* HashValueImpl<Tuple, Index>::apply(seed, tuple): the seed on return;
\* std::get<Index> is tuple[Index + 1]
RECURSIVE HashValueImpl(_, _, _)
HashValueImpl(sd, tuple, Index) ==
  IF Index = 0
  THEN hash_combine(sd, <<tuple[1]>>)
  ELSE hash_combine(HashValueImpl(sd, tuple, Index - 1),
                    <<tuple[Index + 1]>>)

\* hash<std::tuple<TT...>>, for at least one field
hash_tuple(tt) == HashValueImpl(Zero64, tt, Len(tt) - 1)

\* hash<std::pair<T, U>>
hash_pair(pr) == hash_combine(Zero64, <<pr[1], pr[2]>>)

\* the range-for loop of hash<std::vector<T>> from element k on
RECURSIVE vector_loop(_, _, _)
vector_loop(sd, v, k) ==
  IF k > Len(v) THEN sd
  ELSE vector_loop(hash_combine(sd, <<v[k]>>), v, k + 1)

\* hash<std::vector<T>>
hash_vector(v) == vector_loop(Zero64, v, 1)

\* most values passed to one call, and most elements of an aggregate
MaxElems == 3

\* the values tried: int 1, int -1, unsigned char 255, and two objects of
\* types without a specialization
Objects ==
  { IntObject(<<1, 0, 0, 0>>, TRUE),
    IntObject(<<255, 255, 255, 255>>, TRUE),
    IntObject(<<255>>, FALSE),
    FallbackObject(ToWord(1)),
    FallbackObject(secret2) }

\* the seeds tried
Seeds == {Zero64, ToWord(1), golden}

ObjectSeqs == UNION {[1..n -> Objects] : n \in 0..MaxElems}

\* a caller holds a seed and some values
InitCombine ==
  /\ pc = "combine"
  /\ op = "none"
  /\ seed0 \in Seeds
  /\ vals \in ObjectSeqs
  /\ out = None
  /\ NoHash /\ NoMum /\ NoDispatch

\* hash_combine(seed, v1, ..., vn)
CallHashCombine ==
  /\ pc = "combine"
  /\ out' = hash_combine(seed0, vals)
  /\ op' = "hash_combine"
  /\ pc' = "combine_done"
  /\ UNCHANGED <<seed0, vals>>
  /\ UNCHANGED <<hashVars, mumVars, dispatchVars>>

\* hash<std::tuple<TT...>>{}(tt)
CallHashTuple ==
  /\ pc = "combine"
  /\ Len(vals) >= 1
  /\ out' = hash_tuple(vals)
  /\ op' = "tuple"
  /\ pc' = "combine_done"
  /\ UNCHANGED <<seed0, vals>>
  /\ UNCHANGED <<hashVars, mumVars, dispatchVars>>

\* hash<std::pair<T, U>>{}(p)
CallHashPair ==
  /\ pc = "combine"
  /\ Len(vals) = 2
  /\ out' = hash_pair(vals)
  /\ op' = "pair"
  /\ pc' = "combine_done"
  /\ UNCHANGED <<seed0, vals>>
  /\ UNCHANGED <<hashVars, mumVars, dispatchVars>>

\* hash<std::vector<T>>{}(v)
CallHashVector ==
  /\ pc = "combine"
  /\ out' = hash_vector(vals)
  /\ op' = "vector"
  /\ pc' = "combine_done"
  /\ UNCHANGED <<seed0, vals>>
  /\ UNCHANGED <<hashVars, mumVars, dispatchVars>>

NextCombine ==
  \/ CallHashCombine
  \/ CallHashTuple
  \/ CallHashPair
  \/ CallHashVector

SpecCombine == InitCombine /\ [][NextCombine]_vars

(***************************************************************************)
(* Properties of mum and mix                                               *)
(***************************************************************************)

\* C2: the portable branch of mum yields the low and the high word of the
\* full 128-bit product, so mix through it equals mix through the 128-bit
\* multiply: (a * b mod 2^64) xor (a * b div 2^64).
C2_FallbackIsWideProduct ==
  pc = "mum_done" =>
    /\ manual[1] = Low64(MulN(ma, mb, WideBytes))
    /\ manual[2] = High64(MulN(ma, mb, WideBytes))
    /\ manual = wide
    /\ mix_fallback(ma, mb)
         = Xor(Low64(MulN(ma, mb, WideBytes)), High64(MulN(ma, mb, WideBytes)))
    /\ mix_fallback(ma, mb) = mix(ma, mb)

\* (2^64 - 1)^2 = 2^128 - 2^65 + 1: low word 1, high word 2^64 - 2; the sum
\* of the partial products wraps, so the carry is needed
C2_Witness ==
  /\ pc = "mum_done" /\ ma = AllOnes /\ mb = AllOnes
  /\ manual = <<ToWord(1), <<254, 255, 255, 255, 255, 255, 255, 255>> >>

(***************************************************************************)
(* Properties of the combiner                                              *)
(***************************************************************************)

\* the two-argument step as the documentation writes it, for a hash h
ClaimStep(sd, h) ==
  Xor(sd, Add(Add(Add(h, combine_constant), Shl(sd, 6)), Shr(sd, 2)))

\* the ascending left fold of the step over the hashes hv, from sd
RECURSIVE LeftFold(_, _)
LeftFold(sd, hv) ==
  IF Len(hv) = 0 THEN sd
  ELSE ClaimStep(LeftFold(sd, SubSeq(hv, 1, Len(hv) - 1)), hv[Len(hv)])

\* hash<T> of each value
HashesOf(vs) == [k \in 1..Len(vs) |-> hasher(vs[k])]

\* C3: the hash of a tuple, of a pair and of a vector is the ascending left
\* fold from seed 0 over the elements; so a tuple and a pair of the same two
\* elements hash equally, a tuple and a vector of the same elements hash
\* equally, and the empty vector hashes to 0.
C3_AggregatesFoldAscending ==
  (pc = "combine_done" /\ op \in {"tuple", "pair", "vector"}) =>
    /\ out = LeftFold(Zero64, HashesOf(vals))
    /\ Len(vals) = 2 => hash_tuple(vals) = hash_pair(vals)
    /\ Len(vals) >= 1 => hash_tuple(vals) = hash_vector(vals)
    /\ Len(vals) = 0 => out = Zero64

\* a tuple of three fields, the first and the last different, has been hashed
C3_Witness ==
  /\ pc = "combine_done" /\ op = "tuple" /\ Len(vals) = 3
  /\ vals[1] # vals[3]
  /\ out = hash_vector(vals)

\* C4: hash_combine(seed, v1, ..., vn) leaves seed as the result of the
\* step seed ^ (hash(v) + 0x9e3779b9 + (seed << 6) + (seed >> 2)) applied
\* once per value, v1 first, each step on the seed of the step before; with
\* no values the seed is unchanged.
C4_VariadicFoldsInOrder ==
  (pc = "combine_done" /\ op = "hash_combine") =>
    /\ out = LeftFold(seed0, HashesOf(vals))
    /\ Len(vals) = 0 => out = seed0

\* a call with a nonzero seed and three values has returned
C4_Witness ==
  /\ pc = "combine_done" /\ op = "hash_combine" /\ Len(vals) = 3
  /\ seed0 = golden
  /\ vals[1] # vals[3]

\* C5 as stated: the hash of a value of a non-avalanching strategy is
\* remixed through the mixer before hash_combine folds it.
C5_FallbackRemixed ==
  (/\ pc = "combine_done" /\ op = "hash_combine" /\ Len(vals) = 1
   /\ ~is_avalanching(vals[1]))
    => out = ClaimStep(seed0, hashU64(std_hash(vals[1])))

\* what hash_combine folds for a value: the mixer's output for an
\* avalanching strategy, the host's hash as it is for the fallback
DirectHashes(vs) ==
  [k \in 1..Len(vs) |->
     IF is_avalanching(vs[k])
     THEN hashU64(static_cast_u64(vs[k]))
     ELSE std_hash(vs[k])]

\* C5 as amended: hash_combine folds hash<T>(v) directly for every
\* strategy; for the fallback that is the host's std::hash value, not
\* remixed, and is_avalanching is not consulted.
C5_EveryHashFoldedDirectly ==
  (pc = "combine_done" /\ op = "hash_combine") =>
    out = LeftFold(seed0, DirectHashes(vals))

\* a call with a fallback value followed by an integral value has returned
C5_Witness ==
  /\ pc = "combine_done" /\ op = "hash_combine" /\ Len(vals) = 2
  /\ ~is_avalanching(vals[1])
  /\ is_avalanching(vals[2])

(***************************************************************************)
(* Properties of the integral dispatch                                     *)
(***************************************************************************)

\* the representation read as a signed value is negative
NegativeRep == rep[Len(rep)] >= 128

\* the representation extended to 64 bits with copies of the sign bit
SignExtended(r) == [k \in 1..WordBytes |-> IF k <= Len(r) THEN r[k] ELSE 255]

\* the representation extended to 64 bits with zeros
ZeroExtended(r) == [k \in 1..WordBytes |-> IF k <= Len(r) THEN r[k] ELSE 0]

\* C6 as stated: a negative signed w-bit value and the unsigned w-bit value
\* of the same representation have the same hash, for w in 8, 16, 32, 64.
C6_SignedEqualsUnsigned ==
  (pc = "dispatch_done" /\ NegativeRep) => hs = hu

\* C6 as amended: the negative signed value v hashes as hashU64 of v + 2^64
\* (sign-extended), the unsigned value of the same representation as hashU64
\* of v + 2^w (zero-extended); the two widened values are the same exactly
\* when w = 64, and then the hashes are equal.
C6_WidenedByValue ==
  (pc = "dispatch_done" /\ NegativeRep) =>
    /\ hs = hashU64(SignExtended(rep))
    /\ hu = hashU64(ZeroExtended(rep))
    /\ (SignExtended(rep) = ZeroExtended(rep)) <=> (Len(rep) = WordBytes)
    /\ Len(rep) = WordBytes => hs = hu

\* signed char -1 and unsigned char 255 have been hashed, to different values
C6_Witness ==
  /\ pc = "dispatch_done" /\ rep = <<255>>
  /\ hs = AllOnes
  /\ hu # hs

(***************************************************************************)
(* Properties of hash(key, len)                                            *)
(***************************************************************************)

\* C1: every load hash(key, len) makes lies inside [key, key + len); with
\* len == 0 nothing is loaded, so a null key is never dereferenced.
C1_LoadsInBounds ==
  /\ \A l \in loads : l[1] >= 0 /\ l[1] + l[2] <= len
  /\ len = 0 => loads = {}

\* a 17-byte call has returned after its tail reads at offsets 1 and 9
C1_Witness ==
  pc = "done" /\ len = 17 /\ <<1, 8>> \in loads /\ <<9, 8>> \in loads

\* C7 as stated: the hash of a buffer differs from the hash of each of its
\* proper prefixes.
C7_PrefixHashDiffers ==
  pc = "done" => \A l1 \in 0..(len - 1) : hashBytes(key, l1) # result

\* C7 as amended: the value returned is mix(secret[1] ^ len, mix(a ^
\* secret[1], b ^ seed)), and the first operand secret[1] ^ len differs from
\* secret[1] ^ l1 for every shorter length l1; the hashes themselves may be
\* equal.
C7_LengthInFinalMix ==
  pc = "done" =>
    /\ result = mix(Xor(secret1, ToWord(len)),
                    mix(Xor(a, secret1), Xor(b, seed)))
    /\ \A l1 \in 0..(len - 1) :
         Xor(secret1, ToWord(l1)) # Xor(secret1, ToWord(len))

\* a 9-byte call has returned 0, which is also the hash of its first 8 bytes
C7_Witness ==
  /\ pc = "done" /\ key = Crafted /\ len = 9
  /\ result = Zero64
  /\ hashBytes(key, 8) = Zero64

\* C8: for len > 16, p + i == len throughout, i never drops below 1, the
\* loops are left with 1 <= i <= 16, and a and b are the 8 bytes at offsets
\* len - 16 and len - 8.
C8_CursorAndTail ==
  (len > 16 /\ pc # "entry") =>
    /\ p + i = len
    /\ i >= 1
    /\ (pc \in {"return", "done"}) =>
         /\ i <= 16
         /\ a = r8(key, len - 16)
         /\ b = r8(key, len - 8)

\* a 100-byte call has returned after two passes of the do-while loop
C8_Witness ==
  pc = "done" /\ len = 100 /\ rounds = 2 /\ p = 96 /\ i = 4

\* the byte offsets covered by the loads made so far
Covered == {o \in 0..(len - 1) : \E l \in loads : l[1] <= o /\ o < l[1] + l[2]}

\* C9: when hash returns, every offset in [0, len) is covered by a load: for
\* len in 1..3 the r3 indices 0, len >> 1, len - 1; for len in 4..16 the
\* 4-byte loads at 0, (len >> 3) << 2, len - 4, len - 4 - ((len >> 3) << 2);
\* for longer buffers the stride loads and the tail reads.
C9_EveryByteLoaded ==
  pc = "done" =>
    /\ Covered = 0..(len - 1)
    /\ (len >= 1 /\ len <= 3) =>
         loads = {<<0, 1>>, <<len \div 2, 1>>, <<len - 1, 1>>}
    /\ (len >= 4 /\ len <= 16) =>
         loads = {<<0, 4>>, <<(len \div 8) * 4, 4>>, <<len - 4, 4>>,
                  <<len - 4 - ((len \div 8) * 4), 4>>}
    /\ len > 16 =>
         loads = {<<o, 8>> : o \in {len - 16, len - 8}}
                 \cup {<<8 * k, 8>> : k \in 0..(((len - 1) \div 16) * 2 - 1)}

\* an 11-byte call has returned after loads at offsets 0, 4, 7 and 3
C9_Witness ==
  pc = "done" /\ len = 11 /\ loads = {<<0, 4>>, <<4, 4>>, <<7, 4>>, <<3, 4>>}

\* C10 as stated: when the seeds are folded the do-while loop has made
\* floor(len / 48) passes and fewer than 48 bytes remain.
C10_OnePassPerFullChunk ==
  pc = "fold" => (rounds = len \div 48 /\ i < 48)

\* C10 as amended: the loop makes a pass only while more than 48 bytes
\* remain, so when the seeds are folded it has made floor((len - 1) / 48)
\* passes, has consumed 48 bytes per pass, and 1 to 48 bytes remain.
C10_PassWhileMoreThan48 ==
  pc = "fold" =>
    /\ len > 48
    /\ rounds = (len - 1) \div 48
    /\ p = 48 * rounds
    /\ i = len - p
    /\ i >= 1 /\ i <= 48

\* a 96-byte call folds its seeds after one pass with 48 bytes left
C10_Witness ==
  pc = "fold" /\ len = 96 /\ rounds = 1 /\ i = 48

====
